---- MODULE Spec2Model ----
(***************************************************************************)
(* Model of build_index.py: the WheelhouseBuilder pipeline                  *)
(*   scan published wheels -> clone/update repos and reconcile tags ->     *)
(*   build and copy the needed wheels -> regenerate the index pages.       *)
(* Strings are tuples of one-character strings, so that str.split,         *)
(* str.replace, str.isdigit, slicing and sorting are computed as Python    *)
(* computes them.                                                          *)
(***************************************************************************)
EXTENDS Integers, Sequences, FiniteSets, TLC

VARIABLES
  configPresent,      \* config_file_path.is_file()
  repos,              \* config['repos'] as stored in the YAML file
  repoTags,           \* upstream tag list of every configured repository
  wheels,             \* simple/<package>/*.whl : file name -> number of writes
  pkgIndex,           \* simple/<package>/index.html : the page, or NoFile
  rootIndex,          \* simple/index.html : the page, or NoFile
  cloneOrigin,        \* <clone_dir>/<package>/.git : the repository it was cloned from
  pc,                 \* position of main()
  error,              \* the exception that ended the run, or "none"
  runNo,              \* number of the current invocation of main()
  existing_versions,  \* WheelhouseBuilder.__existing_versions
  needed_versions,    \* WheelhouseBuilder.__needed_versions
  available_versions, \* the tag list each _clone_repo call read (local variable)
  i,                  \* position of the `for repo in self.repos` loops
  j,                  \* position of the `for version in needed_versions` loop
  log,                \* stages executed by the current run, in order
  startWheels,        \* wheels when the current run started
  startPkgIndex,      \* pkgIndex when the current run started
  startRootIndex,     \* rootIndex when the current run started
  prevOutcome,        \* pc at which the previous run ended ("none" for the first)
  published           \* <<package, tag, run>> for every tag whose wheel was copied

vars == <<configPresent, repos, repoTags, wheels, pkgIndex, rootIndex,
          cloneOrigin, pc, error, runNo, existing_versions, needed_versions,
          available_versions, i, j, log, startWheels, startPkgIndex,
          startRootIndex, prevOutcome, published>>

----------------------------------------------------------------------------
(* Bounds of the model *)
MaxRuns == 2
MaxTags == 2
MaxFiles == 1

----------------------------------------------------------------------------
(* Python string primitives *)

Digits == {"0", "1", "2", "3", "4", "5", "6", "7", "8", "9"}

\* str.isdigit() for one character
isdigit(ch) == ch \in Digits

\* code point of the characters the model uses (ASCII)
ord(ch) ==
  CASE ch = "-" -> 45 [] ch = "." -> 46 [] ch = "/" -> 47
    [] ch = "0" -> 48 [] ch = "1" -> 49 [] ch = "2" -> 50 [] ch = "3" -> 51
    [] ch = "_" -> 95
    [] ch = "a" -> 97 [] ch = "b" -> 98 [] ch = "f" -> 102 [] ch = "h" -> 104
    [] ch = "l" -> 108 [] ch = "n" -> 110 [] ch = "o" -> 111 [] ch = "p" -> 112
    [] ch = "r" -> 114 [] ch = "v" -> 118 [] ch = "w" -> 119 [] ch = "x" -> 120
    [] ch = "y" -> 121
    [] OTHER -> 0

\* s[k:] with a 0-based Python index k
SliceFrom(s, k) == SubSeq(s, k + 1, Len(s))

\* the k-th smallest element of a set of integers
Nth(S, k) == CHOOSE x \in S : Cardinality({ y \in S : y < x }) = k - 1

\* str.split(sep) for a one-character separator: the pieces between
\* consecutive separators, empty pieces included
split(s, sep) ==
  LET cuts == {0} \cup { k \in 1..Len(s) : s[k] = sep } \cup {Len(s) + 1}
  IN [m \in 1..(Cardinality(cuts) - 1) |->
        SubSeq(s, Nth(cuts, m) + 1, Nth(cuts, m + 1) - 1)]

\* str.replace(old, new) for one-character old and new
replace(s, old, new) == [k \in 1..Len(s) |-> IF s[k] = old THEN new ELSE s[k]]

RECURSIVE StrLess(_, _)
\* a < b for Python strings (code point order, a proper prefix is smaller)
StrLess(a, b) ==
  IF b = << >> THEN FALSE
  ELSE IF a = << >> THEN TRUE
  ELSE IF Head(a) # Head(b) THEN ord(Head(a)) < ord(Head(b))
  ELSE StrLess(Tail(a), Tail(b))

RECURSIVE sorted(_)
\* sorted(...) of a set of file names
sorted(S) ==
  IF S = {} THEN << >>
  ELSE LET m == CHOOSE x \in S : \A y \in S \ {x} : StrLess(x, y)
       IN <<m>> \o sorted(S \ {m})

\* `x in t` for a tuple t
In(x, t) == \E k \in 1..Len(t) : t[k] = x

----------------------------------------------------------------------------
(* Names used by the model *)

foo == <<"f", "o", "o">>
bar == <<"b", "a", "r">>
a_b == <<"a", "-", "b">>

Repo(owner, name) == owner \o <<"/">> \o name

\* the wheel tag the build is expected to produce: '-py3-none-any.whl'
WheelSuffix == <<"-", "p", "y", "3", "-", "n", "o", "n", "e", "-", "a", "n", "y",
                 ".", "w", "h", "l">>

\* contents of config.yaml the model runs with
Configs ==
  { <<Repo(<<"o">>, foo)>>,
    <<Repo(<<"o">>, a_b)>>,
    <<Repo(<<"o">>, foo), Repo(<<"o">>, bar)>>,
    <<Repo(<<"o">>, foo), Repo(<<"p">>, foo)>> }

\* the tags a repository may carry, in the order `git tag --sort=v:refname` lists them
TagUniverse == << <<"1", ".", "0">>, <<"v", "1", ".", "0">>, <<"v", "1", ".", "1">> >>

RECURSIVE PickTags(_, _)
PickTags(k, S) ==
  IF k > Len(TagUniverse) THEN << >>
  ELSE (IF k \in S THEN <<TagUniverse[k]>> ELSE << >>) \o PickTags(k + 1, S)

\* sorted, duplicate-free tag lists of at most MaxTags tags
TagLists ==
  { PickTags(1, S) : S \in { T \in SUBSET (1..Len(TagUniverse)) : Cardinality(T) <= MaxTags } }

\* file names that may lie in simple/<package>/ before the first run
InitialNames(package_name) ==
  { package_name \o <<"-", "1", ".", "0">> \o WheelSuffix,
    replace(package_name, "-", "_") \o <<"-", "1", ".", "0">> \o WheelSuffix,
    package_name \o <<"-", "x", ".", "w", "h", "l">>,
    package_name \o <<"-", "-", "x", ".", "w", "h", "l">>,
    <<"b", "-", "-", "x", ".", "w", "h", "l">>,
    <<"x", ".", "w", "h", "l">> }

\* an index.html: absent, or the links written to it
NoFile == [exists |-> FALSE, links |-> << >>]
Page(links) == [exists |-> TRUE, links |-> links]
EmptyDict == [k \in {} |-> << >>]

\* the index page of a directory that was published before the first run:
\* it lists a wheel that is no longer there
StalePage == Page(<< [href |-> <<"x", ".", "w", "h", "l">>, text |-> <<"v", "0">>] >>)

Range(t) == { t[k] : k \in 1..Len(t) }

----------------------------------------------------------------------------
(* WheelhouseBuilder: static helpers *)

\* repo.split('/')[-1]
package_name_from_repo(repo) ==
  LET parts == split(repo, "/") IN parts[Len(parts)]

\* repo.split('/'), unpacked into (repo_owner, package_name) by the callers
repo_owner_and_package_name_from_repo(repo) == split(repo, "/")

\* self.__package_names
package_names(rs) == [k \in 1..Len(rs) |-> package_name_from_repo(rs[k])]

----------------------------------------------------------------------------
(* _detect_existing *)

\* package_path.glob('*.whl'): the names of the wheels in a package directory
glob_whl(dir) == DOMAIN dir

\* the order in which _detect_existing meets the files; the file system decides
\* it, and existing_versions is afterwards only read with `in`
ScanOrder(names) == sorted(names)

\* ScanFile without the 'v' alias of a digit-leading version
ScanFileNoAlias(package_name, name) ==
  LET filename_split == split(name, "-") IN
  IF Len(filename_split) < 2
    THEN [raised |-> TRUE, add |-> << >>]
    ELSE IF filename_split[1] = package_name
           THEN IF filename_split[2] = << >>
                  THEN [raised |-> TRUE, add |-> << >>]
                  ELSE [raised |-> FALSE, add |-> <<filename_split[2]>>]
           ELSE [raised |-> FALSE, add |-> << >>]

\* ScanFile skipping a name that has no second field instead of raising
ScanFileLenient(package_name, name) ==
  LET filename_split == split(name, "-") IN
  IF Len(filename_split) < 2 \/ filename_split[1] # package_name \/ filename_split[2] = << >>
    THEN [raised |-> FALSE, add |-> << >>]
    ELSE IF isdigit(filename_split[2][1])
           THEN [raised |-> FALSE,
                 add |-> <<filename_split[2], <<"v">> \o filename_split[2]>>]
           ELSE [raised |-> FALSE, add |-> <<filename_split[2]>>]

\* one iteration of `for filename in package_path.glob('*.whl')`:
\* the versions appended to package_list, or an IndexError
ScanFile(package_name, name) ==
  LET filename_split == split(name, "-") IN
  IF Len(filename_split) < 2
    THEN [raised |-> TRUE, add |-> << >>]                 \* filename_split[1]
    ELSE LET whl_package == filename_split[1]
             whl_version == filename_split[2]
         IN IF whl_package = package_name
              THEN IF whl_version = << >>
                     THEN [raised |-> TRUE, add |-> << >>] \* whl_version[0]
                     ELSE IF isdigit(whl_version[1])
                            THEN [raised |-> FALSE,
                                  add |-> <<whl_version, <<"v">> \o whl_version>>]
                            ELSE [raised |-> FALSE, add |-> <<whl_version>>]
              ELSE [raised |-> FALSE, add |-> << >>]

RECURSIVE ScanFiles(_, _, _)
\* the inner loop of _detect_existing for one package
ScanFiles(package_name, files, package_list) ==
  IF files = << >> THEN [raised |-> FALSE, list |-> package_list]
  ELSE LET r == ScanFile(package_name, Head(files)) IN
       IF r.raised THEN [raised |-> TRUE, list |-> package_list]
       ELSE ScanFiles(package_name, Tail(files), package_list \o r.add)

RECURSIVE detect_existing(_, _, _)
\* the outer loop of _detect_existing over self.package_names
detect_existing(names, disk, acc) ==
  IF names = << >> THEN [raised |-> FALSE, existing |-> acc]
  ELSE LET r == ScanFiles(Head(names), ScanOrder(glob_whl(disk[Head(names)])), << >>) IN
       IF r.raised THEN [raised |-> TRUE, existing |-> acc]
       ELSE detect_existing(Tail(names), disk,
              [k \in DOMAIN acc \cup {Head(names)} |->
                 IF k = Head(names) THEN r.list ELSE acc[k]])

----------------------------------------------------------------------------
(* _clone_repo: reconciliation *)

RECURSIVE Comprehension(_, _, _)
Comprehension(available, existing, out) ==
  IF available = << >> THEN out
  ELSE Comprehension(Tail(available), existing,
         IF ~In(Head(available), existing) THEN Append(out, Head(available)) ELSE out)

\* Reconcile comparing against the alias-free half of existing only
ReconcileRawOnly(available, existing) ==
  Comprehension(available, SelectSeq(existing, LAMBDA v : v[1] # "v"), << >>)

\* tuple([version for version in available_versions if version not in existing])
Reconcile(available, existing) == Comprehension(available, existing, << >>)

----------------------------------------------------------------------------
(* _build_and_copy_wheels: name of the wheel that is copied *)

RECURSIVE FirstDigit(_, _)
\* `for index,ch in enumerate(version): if ch.isdigit(): break`:
\* the index of the first digit, the last index when there is none
FirstDigit(version, index) ==
  IF isdigit(version[index + 1]) \/ index + 1 = Len(version) THEN index
  ELSE FirstDigit(version, index + 1)

\* from_path.name
built_wheel_name(package_name, version) ==
  replace(package_name, "-", "_") \o <<"-">>
    \o SliceFrom(version, FirstDigit(version, 0)) \o WheelSuffix

----------------------------------------------------------------------------
(* _create_index *)

RECURSIVE IndexLines(_, _)
IndexLines(package_name, files) ==
  IF files = << >> THEN << >>
  ELSE LET filename_split == split(Head(files), "-")
           whl_package == filename_split[1]
           whl_version == filename_split[2]
       IN (IF whl_package = package_name
             THEN << [href |-> Head(files), text |-> <<"v">> \o whl_version] >>
             ELSE << >>) \o IndexLines(package_name, Tail(files))

\* create_index listing the files in reverse order
create_index_reversed(package_name, dir) ==
  LET lines == IndexLines(package_name, sorted(glob_whl(dir)))
  IN [k \in 1..Len(lines) |-> lines[Len(lines) + 1 - k]]

\* the links _create_index writes to simple/<package>/index.html
create_index(package_name, dir) == IndexLines(package_name, sorted(glob_whl(dir)))

----------------------------------------------------------------------------
(* The file system and the runs *)

\* cp onto simple/<package>/<name>: the file is created or written again
Write(dir, name) ==
  [n \in DOMAIN dir \cup {name} |->
     IF n \in DOMAIN dir THEN (IF n = name THEN dir[n] + 1 ELSE dir[n]) ELSE 1]

Put(dict, key, value) ==
  [k \in DOMAIN dict \cup {key} |-> IF k = key THEN value ELSE dict[k]]

Packages(rs) == Range(package_names(rs))

\* the placements of at most MaxFiles files in the package directories
InitialDisks(rs) ==
  LET slots == { <<p, n>> : p \in Packages(rs), n \in UNION { InitialNames(q) : q \in Packages(rs) } }
      own   == { s \in slots : s[2] \in InitialNames(s[1]) }
  IN { [p \in Packages(rs) |-> [n \in { s[2] : s \in { t \in S : t[1] = p } } |-> 1]] :
         S \in { T \in SUBSET own : Cardinality(T) <= MaxFiles } }

Init ==
  /\ configPresent \in BOOLEAN
  /\ IF configPresent
       THEN /\ repos \in Configs
            /\ repoTags \in [Range(repos) -> TagLists]
            /\ wheels \in InitialDisks(repos)
       ELSE /\ repos = << >>
            /\ repoTags = EmptyDict
            /\ wheels = EmptyDict
  /\ pkgIndex = [p \in Packages(repos) |-> IF DOMAIN wheels[p] # {} THEN StalePage ELSE NoFile]
  /\ rootIndex = IF \E p \in DOMAIN wheels : DOMAIN wheels[p] # {} THEN StalePage ELSE NoFile
  /\ cloneOrigin = EmptyDict
  /\ pc = "main"
  /\ error = "none"
  /\ runNo = 1
  /\ existing_versions = EmptyDict
  /\ needed_versions = EmptyDict
  /\ available_versions = EmptyDict
  /\ i = 1
  /\ j = 1
  /\ log = << >>
  /\ startWheels = wheels
  /\ startPkgIndex = pkgIndex
  /\ startRootIndex = rootIndex
  /\ prevOutcome = "none"
  /\ published = {}

disk == <<wheels, pkgIndex, rootIndex, cloneOrigin>>
input == <<configPresent, repos, repoTags>>
history == <<startWheels, startPkgIndex, startRootIndex, prevOutcome>>
memory == <<existing_versions, needed_versions, available_versions>>

\* a subprocess.run(..., check=True) that fails: CalledProcessError ends main()
Abort(exception) ==
  /\ pc' = "aborted"
  /\ error' = exception

\* main() up to the end of WheelhouseBuilder.__init__: the config is loaded,
\* _make_dirs creates the directories that are missing (exist_ok, so the
\* wheels already there stay) and _detect_existing scans them
Construct ==
  /\ pc = "main"
  /\ IF ~configPresent
       THEN \* config = dict(); config['repos'] raises KeyError
            /\ Abort("KeyError")
            /\ UNCHANGED existing_versions
       ELSE LET r == detect_existing(package_names(repos), wheels, EmptyDict) IN
            IF r.raised
              THEN /\ Abort("IndexError")
                   /\ UNCHANGED existing_versions
              ELSE /\ existing_versions' = r.existing
                   /\ pc' = "clone_repos"
                   /\ error' = "none"
  /\ i' = 1
  /\ j' = 1
  /\ UNCHANGED <<disk, input, history, needed_versions, available_versions, log, runNo,
                 published>>

\* one iteration of clone_repos: _clone_repo(repo) with every command succeeding
CloneRepo ==
  /\ pc = "clone_repos"
  /\ i <= Len(repos)
  /\ LET repo == repos[i]
         package_name == repo_owner_and_package_name_from_repo(repo)[2]
         origin == IF package_name \in DOMAIN cloneOrigin
                     THEN cloneOrigin[package_name] ELSE repo
         tags == repoTags[origin]
     IN /\ cloneOrigin' = Put(cloneOrigin, package_name, origin)
        /\ available_versions' = Put(available_versions, package_name, tags)
        /\ needed_versions' =
             Put(needed_versions, package_name,
                 Reconcile(tags, existing_versions[package_name]))
  /\ log' = Append(log, <<"clone", i>>)
  /\ IF i = Len(repos)
       THEN /\ pc' = "build_all"
            /\ i' = 1
       ELSE /\ pc' = "clone_repos"
            /\ i' = i + 1
  /\ j' = 1
  /\ UNCHANGED <<wheels, pkgIndex, rootIndex, input, history, existing_versions, error,
                 runNo, published>>

\* git clone / checkout / pull fails in _clone_repo
CloneRepoFails ==
  /\ pc = "clone_repos"
  /\ i <= Len(repos)
  /\ Abort("CalledProcessError")
  /\ UNCHANGED <<disk, input, history, memory, i, j, log, runNo, published>>

\* one iteration of the loop of _build_and_copy_wheels, every command succeeding
BuildAndCopyWheel ==
  /\ pc = "build_all"
  /\ i <= Len(repos)
  /\ LET package_name == repo_owner_and_package_name_from_repo(repos[i])[2] IN
     /\ j <= Len(needed_versions[package_name])
     /\ LET version == needed_versions[package_name][j] IN
        /\ wheels' = [wheels EXCEPT ![package_name] =
                        Write(@, built_wheel_name(package_name, version))]
        /\ published' = published \cup {<<package_name, version, runNo>>}
        /\ log' = Append(log, <<"build", i, version>>)
  /\ j' = j + 1
  /\ UNCHANGED <<pkgIndex, rootIndex, cloneOrigin, input, history, memory, pc, error, i,
                 runNo>>

\* git checkout, python -m build or cp fails in _build_and_copy_wheels
BuildFails ==
  /\ pc = "build_all"
  /\ i <= Len(repos)
  /\ j <= Len(needed_versions[repo_owner_and_package_name_from_repo(repos[i])[2]])
  /\ Abort("CalledProcessError")
  /\ UNCHANGED <<disk, input, history, memory, i, j, log, runNo, published>>

\* BuildReturn leaving build_all after the first repository
BuildReturnEarly ==
  /\ pc = "build_all"
  /\ i <= Len(repos)
  /\ j > Len(needed_versions[repo_owner_and_package_name_from_repo(repos[i])[2]])
  /\ pc' = "create_indices"
  /\ i' = 1
  /\ j' = 1
  /\ UNCHANGED <<disk, input, history, memory, error, log, runNo, published>>

\* _build_and_copy_wheels returns: build_all goes to the next repository
BuildReturn ==
  /\ pc = "build_all"
  /\ i <= Len(repos)
  /\ j > Len(needed_versions[repo_owner_and_package_name_from_repo(repos[i])[2]])
  /\ IF i = Len(repos)
       THEN /\ pc' = "create_indices"
            /\ i' = 1
       ELSE /\ pc' = "build_all"
            /\ i' = i + 1
  /\ j' = 1
  /\ UNCHANGED <<disk, input, history, memory, error, log, runNo, published>>

RootLine(package_name) ==
  [href |-> package_name \o <<"/">>, text |-> package_name]

\* create_indices, with the _create_index call of every package
CreateIndices ==
  /\ pc = "create_indices"
  /\ pkgIndex' = [p \in DOMAIN pkgIndex |-> Page(create_index(p, wheels[p]))]
  /\ rootIndex' = Page([k \in 1..Len(repos) |-> RootLine(package_names(repos)[k])])
  /\ log' = Append(log, <<"index">>)
  /\ pc' = "done"
  /\ UNCHANGED <<wheels, cloneOrigin, input, history, memory, error, i, j, runNo,
                 published>>

\* the tool is invoked again
NewRun ==
  /\ pc \in {"done", "aborted"}
  /\ runNo < MaxRuns
  /\ runNo' = runNo + 1
  /\ prevOutcome' = pc
  /\ pc' = "main"
  /\ error' = "none"
  /\ existing_versions' = EmptyDict
  /\ needed_versions' = EmptyDict
  /\ available_versions' = EmptyDict
  /\ i' = 1
  /\ j' = 1
  /\ log' = << >>
  /\ startWheels' = wheels
  /\ startPkgIndex' = pkgIndex
  /\ startRootIndex' = rootIndex
  /\ UNCHANGED <<disk, input, published>>

Next ==
  \/ Construct
  \/ CloneRepo
  \/ CloneRepoFails
  \/ BuildAndCopyWheel
  \/ BuildFails
  \/ BuildReturn
  \/ CreateIndices
  \/ NewRun

Spec == Init /\ [][Next]_vars

----------------------------------------------------------------------------
(* Properties *)

\* the '-'-separated fields of a file name
Fields(name) == split(name, "-")

\* the wheels of a directory whose first field is the package name
OwnWheels(package_name, dir) ==
  { f \in DOMAIN dir : LET fs == Fields(f) IN Len(fs) >= 2 /\ fs[1] = package_name }

\* the version fields of those wheels
OwnVersions(package_name, dir) ==
  { Fields(f)[2] : f \in OwnWheels(package_name, dir) }

DigitLeading(s) == s # << >> /\ isdigit(s[1])

\* C1: after _clone_repo, needed_versions[package] is the tag list read for the
\* package with exactly the members of existing_versions[package] left out, in
\* tag-list order; it is within the tags, contains no version of a published
\* wheel in raw or 'v'-aliased form, and is the whole tag list when no tag is
\* in existing_versions[package].
C1_Reconciliation ==
  \A p \in DOMAIN needed_versions :
    LET t == available_versions[p]
        n == needed_versions[p]
        E == Range(existing_versions[p])
        K == { k \in 1..Len(t) : t[k] \notin E }
    IN /\ Len(n) = Cardinality(K)
       /\ \A m \in 1..Len(n) : m <= Cardinality(K) => n[m] = t[Nth(K, m)]
       /\ Range(n) \subseteq Range(t)
       /\ Range(n) \cap E = {}
       /\ \A v \in OwnVersions(p, startWheels[p]) :
            /\ v \notin Range(n)
            /\ DigitLeading(v) => (<<"v">> \o v) \notin Range(n)
       /\ (Range(t) \cap E = {}) => n = t

\* a reconciliation that drops a published tag and keeps an unpublished one
C1_Witness ==
  \E p \in DOMAIN needed_versions :
    /\ needed_versions[p] # << >>
    /\ Len(needed_versions[p]) < Len(available_versions[p])
    /\ \E v \in OwnVersions(p, startWheels[p]) :
         (<<"v">> \o v) \in Range(available_versions[p])

\* C2: after the scan, existing_versions[package] holds, for every wheel of the
\* package directory whose first field is the package name, its second field,
\* and 'v' + that field exactly when the field starts with a digit; nothing else.
C2_ExistingScan ==
  /\ pc \notin {"main", "aborted"} => DOMAIN existing_versions = Packages(repos)
  /\ \A p \in DOMAIN existing_versions :
       LET versions == OwnVersions(p, startWheels[p]) IN
       Range(existing_versions[p]) =
         versions \cup { <<"v">> \o v : v \in { w \in versions : DigitLeading(w) } }

\* 'foo-1.0-py3-none-any.whl' registered as exactly {'1.0', 'v1.0'}
C2_Witness ==
  /\ foo \in DOMAIN existing_versions
  /\ (foo \o <<"-", "1", ".", "0">> \o WheelSuffix) \in DOMAIN startWheels[foo]
  /\ Range(existing_versions[foo]) = { <<"1", ".", "0">>, <<"v", "1", ".", "0">> }

\* C3 (as claimed): in a run that follows a run which completed, every
\* reconciliation yields an empty needed-versions list.
C3_Idempotence ==
  (runNo >= 2 /\ prevOutcome = "done") =>
    \A p \in DOMAIN needed_versions : needed_versions[p] = << >>

\* the tag with its leading non-digit marker removed
StripMarker(tag) == SliceFrom(tag, FirstDigit(tag, 0))

\* the tags C4 speaks of: digit-leading, or 'v' followed by a digit
GuardedTag(tag) ==
  \/ DigitLeading(tag)
  \/ Len(tag) >= 2 /\ tag[1] = "v" /\ isdigit(tag[2])

\* C4 (as claimed): the wheel copied for a tag carries the tag without its
\* leading marker as version field, and a guarded tag whose wheel was copied in
\* an earlier run is never in needed_versions again.
C4_AliasGuard ==
  \A e \in published :
    /\ \E f \in DOMAIN wheels[e[1]] :
         Len(Fields(f)) >= 2 /\ Fields(f)[2] = StripMarker(e[2])
    /\ (e[3] < runNo /\ GuardedTag(e[2]) /\ e[1] \in DOMAIN needed_versions)
         => e[2] \notin Range(needed_versions[e[1]])

\* C5 (as claimed): with no config file the run does not abort.
C5_MissingConfigNoOp ==
  ~configPresent => (pc # "aborted" /\ error = "none")

\* a name that does not yield a package field and a non-empty version field
Malformed(name) == LET fs == Fields(name) IN Len(fs) < 2 \/ fs[2] = << >>

\* a name on which the scan of package_name's directory raises
Unscannable(package_name, name) ==
  LET fs == Fields(name) IN
  \/ Len(fs) < 2
  \/ fs[1] = package_name /\ fs[2] = << >>

ScanAborted == pc = "aborted" /\ error = "IndexError" /\ log = << >>
                 /\ needed_versions = EmptyDict /\ wheels = startWheels

\* C6 (as claimed): a malformed wheel name in a tracked package directory
\* aborts the run in the scan.
C6_MalformedAborts ==
  (pc # "main" /\ \E p \in DOMAIN startWheels : \E f \in DOMAIN startWheels[p] : Malformed(f))
    => ScanAborted

\* C6 (amended): the run is aborted in the scan, before any clone, reconciliation
\* or build, exactly when some tracked package directory holds a wheel name with
\* fewer than two fields, or with the package name as first field and an empty
\* version field; other names are skipped or registered and the run goes on.
C6_UnscannableAborts ==
  (pc # "main" /\ configPresent) =>
    /\ (\E p \in DOMAIN startWheels : \E f \in DOMAIN startWheels[p] : Unscannable(p, f))
         <=> error = "IndexError"
    /\ error = "IndexError" => ScanAborted

\* the scan aborted on a name without a second field
C6_Witness ==
  /\ ScanAborted
  /\ \E p \in DOMAIN startWheels : \E f \in DOMAIN startWheels[p] : Len(Fields(f)) < 2

\* C7 (as claimed): when an external command fails, every wheel and index page
\* present at the start of the run is present and unchanged, and the wheels
\* copied earlier in the run are on disk.
C7_FailureKeepsPublished ==
  (pc = "aborted" /\ error = "CalledProcessError") =>
    /\ \A p \in DOMAIN startWheels : \A f \in DOMAIN startWheels[p] :
         f \in DOMAIN wheels[p] /\ wheels[p][f] = startWheels[p][f]
    /\ pkgIndex = startPkgIndex
    /\ rootIndex = startRootIndex
    /\ \A e \in published :
         e[3] = runNo => built_wheel_name(e[1], e[2]) \in DOMAIN wheels[e[1]]

\* the versions built for the k-th repository, in the order of the log
BuiltFor(k) ==
  LET evs == SelectSeq(log, LAMBDA e : e[1] = "build" /\ e[2] = k)
  IN [m \in 1..Len(evs) |-> evs[m][3]]

NeededOf(k) == needed_versions[package_name_from_repo(repos[k])]

IsPrefix(a, b) == Len(a) <= Len(b) /\ \A m \in 1..Len(a) : a[m] = b[m]

\* C8: in every run the repositories are cloned and reconciled one after the
\* other in configuration order before any build; the builds go through the
\* repositories in configuration order and through each needed list in order;
\* the index pages are written after every needed version was built.
C8_StageOrder ==
  /\ \A k \in 1..Len(log) :
       /\ log[k][1] = "clone" => (k <= Len(repos) /\ log[k] = <<"clone", k>>)
       /\ log[k][1] = "build" =>
            /\ k > Len(repos)
            /\ \A m \in 1..Len(repos) : log[m] = <<"clone", m>>
            /\ package_name_from_repo(repos[log[k][2]]) \in DOMAIN needed_versions
            /\ \A m \in 1..(k - 1) : log[m][1] = "build" => log[m][2] <= log[k][2]
            /\ \A r \in 1..(log[k][2] - 1) : BuiltFor(r) = NeededOf(r)
       /\ log[k][1] = "index" =>
            /\ k = Len(log)
            /\ \A r \in 1..Len(repos) : BuiltFor(r) = NeededOf(r)
  /\ \A r \in 1..Len(repos) :
       BuiltFor(r) # << >> => IsPrefix(BuiltFor(r), NeededOf(r))
  /\ pc = "done" => (log # << >> /\ log[Len(log)] = <<"index">>)

\* a completed run over two repositories, one with two builds, one with a build
C8_Witness ==
  /\ pc = "done"
  /\ Len(repos) = 2
  /\ Len(BuiltFor(1)) = 2
  /\ Len(BuiltFor(2)) >= 1

C10_WriteOnce ==
  \A p \in DOMAIN wheels : \A f \in DOMAIN wheels[p] : wheels[p][f] <= 1

====
